---- MODULE Spec2Model ----
(***************************************************************************)
(* Crawl-and-normalize pipeline of server/utils.py: the same-domain        *)
(* breadth-first crawler (scrape_entire_website), the attachment store     *)
(* (save_extensions), the page reporter (generate_page_report) and the     *)
(* attachment conversion stage (convert_attachments_to_pdf), together with *)
(* the module-level lists they share.                                      *)
(*                                                                         *)
(* A URL is a record [scheme, host, dir, stem, ext] standing for the text  *)
(* scheme://host/dir/stem.ext: host is the sequence of dot-separated       *)
(* labels, stem the sequence of tokens of the last path segment before its *)
(* extension (so that "a" followed by "_1" and the literal name "a_1" are  *)
(* the same text), ext the text after the last dot of the last segment.    *)
(***************************************************************************)
EXTENDS Integers, Sequences, FiniteSets, Bags, TLC

VARIABLES
    markdown_files,     \* module-level list of report paths (domain keys)
    attachment_files,   \* module-level list of stored attachment paths
    files,              \* paths that exist under temp/attachments
    reports,            \* temp/markdown: domain key -> sequence of report blocks
    pc,                 \* position of scrape_entire_website
    start_url, company_name, max_pages,   \* its arguments
    base_domain, scraped_urls, urls_to_scrape, response,   \* its locals
    attempted,          \* URLs on which httpx.get was issued in this run
    depth,              \* crawl depth of every URL enqueued in this run
    attempts,           \* per URL, the number of GETs issued in this run
    failures,           \* per URL, the number of GETs that raised in this run
    enqueuers,          \* per URL, the pages of this run whose anchors put it in the frontier
    runs,               \* calls of scrape_entire_website that have passed the checks
    at_call,            \* the two path lists as they were when the latest run was called
    last_call,          \* the last direct call of a function of the module
    conv_pc,            \* position of convert_attachments_to_pdf
    conv_todo,          \* bag of the paths the for loop has still to iterate
    conv_results        \* per file of the current invocation: how often it came up, what the converter
                        \* did and the outcome that was logged

vars == <<markdown_files, attachment_files, files, reports, pc, start_url,
          company_name, max_pages, base_domain, scraped_urls, urls_to_scrape,
          response, attempted, depth, attempts, failures, enqueuers, runs, at_call,
          last_call, conv_pc, conv_todo,
          conv_results>>

\* ------------------------------------------------------------------ bounds

MaxPagesArg == 3      \* largest max_pages argument tried
MaxLinks == 2         \* anchors on one fetched page
MaxBlocks == 3        \* report blocks written by direct calls of generate_page_report
MaxRuns == 2          \* crawl runs of one process, one after the other
MaxPagesInSequence == 2   \* largest max_pages argument of those runs
MaxListed == 3        \* entries of attachment_files when the conversion is called by itself

\* ------------------------------------------------------------- URL universe

ExampleHost == <<"www", "example", "com">>
OtherHost == <<"other", "org">>

\* the query of a URL, name=stem.ext (name=stem when ext is ""); NoQuery
\* when the URL has no "?"
Query(name, stem, ext) == [name |-> name, stem |-> stem, ext |-> ext]
NoQuery == Query("", "", "")

URL(scheme, host, dir, stem, ext) ==
    [scheme |-> scheme, host |-> host, dir |-> dir, stem |-> stem, ext |-> ext,
     query |-> NoQuery]

WithQuery(url, query) == [url EXCEPT !.query = query]

EmptyURL == URL("", <<>>, "", <<>>, "")                    \* ""
Home == URL("http", ExampleHost, "", <<>>, "")             \* http://www.example.com
NoSchemeURL == URL("", ExampleHost, "", <<>>, "")          \* www.example.com
NoHostURL == URL("http", <<>>, "", <<>>, "")               \* http://

\* href attributes a page of the site may carry: rel = TRUE is a relative
\* reference, resolved against the page; rel = FALSE an absolute URL.
Href(rel, host, dir, stem, ext) ==
    [rel |-> rel, host |-> host, dir |-> dir, stem |-> stem, ext |-> ext]

Hrefs ==
    { Href(TRUE, <<>>, "", <<"about">>, ""),               \* about
      Href(TRUE, <<>>, "files", <<"a">>, "pdf"),           \* files/a.pdf
      Href(TRUE, <<>>, "files", <<"b">>, "DOCX"),          \* files/b.DOCX
      Href(TRUE, <<>>, "old", <<"b">>, "DOCX"),            \* old/b.DOCX
      Href(FALSE, OtherHost, "", <<"x">>, "") }            \* http://other.org/x

ContentTypes == {"Text/HTML; charset=utf-8", "application/pdf", ""}

\* --------------------------------------------------------- pure functions

\* str.lower() on the texts of the universe
lower(s) ==
    CASE s = "DOCX" -> "docx"
      [] s = "PDF" -> "pdf"
      [] s = "Text/HTML; charset=utf-8" -> "text/html; charset=utf-8"
      [] OTHER -> s

\* "text/html" in content_type
ContainsTextHtml(content_type) ==
    content_type \in {"text/html", "text/html; charset=utf-8"}

attachment_extensions == {"pdf", "doc", "docx", "xls", "xlsx", "ppt", "pptx"}

\* urlparse(url).netloc: without a scheme the text parses as a path
netloc(url) == IF url.scheme = "" THEN <<>> ELSE url.host

\* urljoin(url, href)
urljoin(url, href) ==
    IF href.rel
    THEN URL(url.scheme, url.host, href.dir, href.stem, href.ext)
    ELSE URL("http", href.host, href.dir, href.stem, href.ext)

\* the text after the last dot of the URL when no "/" follows that dot, else
\* "": a URL with no path ends with the last label of its host, and a query
\* is part of the text
LastDotPart(url) ==
    LET before_query ==
            IF url.ext = "" /\ url.dir = "" /\ url.stem = <<>> /\ url.host # <<>>
            THEN url.host[Len(url.host)]
            ELSE url.ext
    IN  IF url.query = NoQuery THEN before_query
        ELSE IF url.query.ext # "" THEN url.query.ext
        ELSE IF before_query = "" THEN ""
        ELSE before_query \o "?" \o url.query.name \o "=" \o url.query.stem

\* any(url.lower().endswith(f".{ext}") for ext in attachment_extensions)
IsAttachmentURL(url) ==
    \E ext \in attachment_extensions : lower(LastDotPart(url)) = ext

\* save_extensions: url.split(".")[-1].lower() in extensions
SaveAccepts(url) == lower(LastDotPart(url)) \in attachment_extensions

\* a path under temp/attachments/<company>/
Path(company, stem, ext) == [company |-> company, stem |-> stem, ext |-> ext]

\* f"{base_name}_{counter}{ext}"
Suffixed(stem, counter) == stem \o <<"_", ToString(counter)>>

\* the while loop of save_extensions: the first counter whose name is free
RECURSIVE FreeCounter(_, _, _, _, _)
FreeCounter(existing, company, stem, ext, counter) ==
    IF Path(company, Suffixed(stem, counter), ext) \in existing
    THEN FreeCounter(existing, company, stem, ext, counter + 1)
    ELSE counter

\* the store without its os.path.exists test
StorePathNoCheck(existing, company, url) == Path(company, url.stem, url.ext)

\* the path save_extensions writes to
StorePath(existing, company, url) ==
    IF Path(company, url.stem, url.ext) \in existing
    THEN Path(company,
              Suffixed(url.stem, FreeCounter(existing, company, url.stem, url.ext, 1)),
              url.ext)
    ELSE Path(company, url.stem, url.ext)

\* the key taken from the first label whatever the number of labels
DomainKeyFirstLabel(url_domain) == url_domain[1]

\* domain_name of generate_page_report
DomainKey(url_domain) ==
    IF Len(url_domain) > 2
    THEN url_domain[Len(url_domain) - 1]
    ELSE url_domain[1]

Perms(S) ==
    { s \in [1..Cardinality(S) -> S] : \A i, j \in 1..Cardinality(S) :
                                          i # j => s[i] # s[j] }

Range(s) == { s[i] : i \in 1..Len(s) }

\* ------------------------------------------------------------------- state

\* response carries the Content-Type header; its body is consumed in the iteration
NoResponse == "none"

\* no function of the module has been called directly
NoCall == [fn |-> "none"]

\* what earlier processes may have left on disk
LeftoverFiles == { Path("acme", <<"a">>, "pdf"), Path("acme", <<"a", "_", "1">>, "pdf") }
LeftoverReports == { <<>>, ("example" :> <<Home>>) }

Init ==
    /\ markdown_files = <<>>
    /\ attachment_files = <<>>
    /\ files \in SUBSET LeftoverFiles
    /\ reports \in LeftoverReports
    /\ pc = "idle"
    /\ start_url = EmptyURL
    /\ company_name = ""
    /\ max_pages = [isInt |-> TRUE, val |-> 0]
    /\ base_domain = <<>>
    /\ scraped_urls = {}
    /\ urls_to_scrape = <<>>
    /\ response = NoResponse
    /\ attempted = {}
    /\ depth = <<>>
    /\ attempts = <<>> /\ failures = <<>> /\ enqueuers = <<>>
    /\ runs = 0 /\ at_call = <<attachment_files, markdown_files>>
    /\ last_call = NoCall
    /\ conv_pc = "idle"
    /\ conv_todo = EmptyBag
    /\ conv_results = <<>>

process_state == <<markdown_files, attachment_files, files, reports>>
run_state == <<base_domain, scraped_urls, urls_to_scrape, response>>
history == <<attempted, depth, attempts, failures, enqueuers, runs, at_call>>
conv_state == <<conv_pc, conv_todo, conv_results>>

\* ------------------------------------------------- scrape_entire_website

StartURLs == {Home, EmptyURL, NoSchemeURL, NoHostURL}
CompanyNames == {"acme", ""}
MaxPagesArgs ==
    { [isInt |-> TRUE, val |-> v] : v \in (-1)..MaxPagesArg }
        \cup { [isInt |-> FALSE, val |-> 0] }            \* e.g. the text "10"

\* the argument checks with max_pages < 0 for max_pages <= 0
ArgsValidZeroPages(s, c, m) == s # EmptyURL /\ c # "" /\ m.isInt /\ m.val >= 0

\* the three argument checks at the head of scrape_entire_website
ArgsValid(s, c, m) == s # EmptyURL /\ c # "" /\ m.isInt /\ m.val > 0

\* the crawl of a process: called once, while no conversion is executing
CanCall == pc = "idle" /\ conv_pc # "running"

\* the call raises ValueError: none of its locals is bound
CallInvalid(s, c, m) ==
    /\ CanCall
    /\ ~ArgsValid(s, c, m)
    /\ pc' = "invalid"
    /\ start_url' = s /\ company_name' = c /\ max_pages' = m
    /\ base_domain' = <<>> /\ scraped_urls' = {} /\ urls_to_scrape' = <<>>
    /\ response' = NoResponse
    /\ attempted' = {} /\ depth' = <<>>
    /\ attempts' = <<>> /\ failures' = <<>> /\ enqueuers' = <<>>
    /\ conv_pc' = "idle" /\ conv_todo' = EmptyBag /\ conv_results' = <<>>
    /\ UNCHANGED <<process_state, last_call, runs, at_call>>

\* a call that also empties the two module-level lists
EnterClearingLists(s, c, m) ==
    /\ ArgsValid(s, c, m)
    /\ pc' = "running"
    /\ start_url' = s /\ company_name' = c /\ max_pages' = m
    /\ base_domain' = netloc(s) /\ scraped_urls' = {} /\ urls_to_scrape' = <<s>>
    /\ response' = NoResponse
    /\ attempted' = {} /\ depth' = (s :> 0)
    /\ attempts' = <<>> /\ failures' = <<>> /\ enqueuers' = <<>>
    /\ conv_pc' = "idle" /\ conv_todo' = EmptyBag /\ conv_results' = <<>>
    /\ runs' = runs + 1 /\ at_call' = <<attachment_files, markdown_files>>
    /\ attachment_files' = <<>> /\ markdown_files' = <<>>
    /\ UNCHANGED <<files, reports, last_call>>

\* a call that passes the checks binds base_domain, scraped_urls and
\* urls_to_scrape anew; the two module-level lists are not touched
Enter(s, c, m) ==
    /\ ArgsValid(s, c, m)
    /\ pc' = "running"
    /\ start_url' = s /\ company_name' = c /\ max_pages' = m
    /\ base_domain' = netloc(s) /\ scraped_urls' = {} /\ urls_to_scrape' = <<s>>
    /\ response' = NoResponse
    /\ attempted' = {} /\ depth' = (s :> 0)
    /\ attempts' = <<>> /\ failures' = <<>> /\ enqueuers' = <<>>
    /\ conv_pc' = "idle" /\ conv_todo' = EmptyBag /\ conv_results' = <<>>
    /\ runs' = runs + 1 /\ at_call' = <<attachment_files, markdown_files>>
    /\ UNCHANGED <<process_state, last_call>>

\* the call passes the checks and binds base_domain, scraped_urls, urls_to_scrape
CallStart(s, c, m) == CanCall /\ Enter(s, c, m)

\* the loop condition without the page budget
LoopGuardFrontierOnly == urls_to_scrape # <<>>

\* the loop condition with <= for <
LoopGuardOffByOne == urls_to_scrape # <<>> /\ Cardinality(scraped_urls) <= max_pages.val

\* while urls_to_scrape and len(scraped_urls) < max_pages
LoopGuard == urls_to_scrape # <<>> /\ Cardinality(scraped_urls) < max_pages.val

\* the two early "continue"s after the pop
Skipped(url) == url = EmptyURL \/ url \in scraped_urls

\* httpx.get can return a response only for a URL with a scheme and a host
Fetchable(url) == url.scheme # "" /\ url.host # <<>>

\* the bodies a server may return: at most MaxLinks anchors with an href
LinkSets == { S \in SUBSET Hrefs : Cardinality(S) <= MaxLinks }

\* the dispatch with the text/html test ahead of the extension test
ClassifyHeaderFirst(url, content_type) ==
    IF ContainsTextHtml(lower(content_type)) THEN "HTMLPage"
    ELSE IF IsAttachmentURL(url) THEN "Attachment"
    ELSE "Ignored"

\* the three-way dispatch on a response that has been marked visited
Classify(url, content_type) ==
    IF IsAttachmentURL(url) THEN "Attachment"
    ELSE IF ContainsTextHtml(lower(content_type)) THEN "HTMLPage"
    ELSE "Ignored"

\* the link filter without its netloc comparison
KeepLinkAnyDomain(joined_url, base, scraped, queued) ==
    /\ joined_url \notin scraped
    /\ joined_url \notin Range(queued)

\* the link filter without its test against the frontier
KeepLinkIgnoringQueue(joined_url, base, scraped, queued) ==
    /\ netloc(joined_url) = base
    /\ joined_url \notin scraped

\* the condition under which the link loop keeps joined_url
KeepLink(joined_url, base, scraped, queued) ==
    /\ netloc(joined_url) = base
    /\ joined_url \notin scraped
    /\ joined_url \notin Range(queued)

\* new_urls, computed against the frontier left after the pop
NewURLs(url, links, base, scraped, queued) ==
    { j \in { urljoin(url, h) : h \in links } : KeepLink(j, base, scraped, queued) }

\* new links put at the head of the list instead of its tail
ExtendAtFront(queued, order) == order \o queued

\* urls_to_scrape.extend(new_urls): a set is appended in some order
Extend(queued, order) == queued \o order

\* one report file per page name instead of one per domain key
AppendBlockByPage(rep, key, block) ==
    LET name == IF block.stem = <<>> THEN key ELSE block.stem[1] IN
        IF name \in DOMAIN rep
        THEN [rep EXCEPT ![name] = Append(@, block)]
        ELSE rep @@ (name :> <<block>>)

\* the report written with mode "w" instead of "a"
AppendBlockTruncating(rep, key, block) ==
    IF key \in DOMAIN rep
    THEN [rep EXCEPT ![key] = <<block>>]
    ELSE rep @@ (key :> <<block>>)

\* the write of generate_page_report: open(..., "a") and write
AppendBlock(rep, key, block) ==
    IF key \in DOMAIN rep
    THEN [rep EXCEPT ![key] = Append(@, block)]
    ELSE rep @@ (key :> <<block>>)

\* the path recorded at every call, listed or not
RecordReportAlways(list, key) == Append(list, key)

\* if report_filepath_md not in markdown_files: markdown_files.append(...)
RecordReport(list, key) == IF key \in Range(list) THEN list ELSE Append(list, key)

\* generate_page_report(url, content, company_name), when its write succeeds
generate_page_report(url) ==
    IF netloc(url) = <<>>
    THEN UNCHANGED <<reports, markdown_files>>
    ELSE /\ reports' = AppendBlock(reports, DomainKey(netloc(url)), url)
         /\ markdown_files' = RecordReport(markdown_files, DomainKey(netloc(url)))

\* history: the depth of a URL is set when it is first enqueued
Discover(d, url, new_urls) ==
    d @@ [ u \in new_urls \ DOMAIN d |-> d[url] + 1 ]

\* history: a counter per URL, absent entries counting as zero
Count(counter, url) == IF url \in DOMAIN counter THEN counter[url] ELSE 0

Bump(counter, url) ==
    [ u \in DOMAIN counter \cup {url} |->
          Count(counter, u) + IF u = url THEN 1 ELSE 0 ]

\* history: httpx.get is called on url
\* history: the page url has put new_urls, taken from its anchors, in the
\* frontier
Enqueued(by, url, new_urls) ==
    [ u \in DOMAIN by \cup new_urls |->
          (IF u \in DOMAIN by THEN by[u] ELSE {}) \cup
          (IF u \in new_urls THEN {url} ELSE {}) ]

Issue(url) ==
    /\ attempted' = attempted \cup {url}
    /\ attempts' = Bump(attempts, url)

\* a failed GET that puts the URL back in the frontier for another try
FetchFailsRetrying(url) ==
    /\ urls_to_scrape' = Append(Tail(urls_to_scrape), url)
    /\ Issue(url)
    /\ failures' = Bump(failures, url)
    /\ UNCHANGED <<process_state, pc, base_domain, scraped_urls, response, depth, enqueuers>>

\* a failed GET that also marks the URL visited
FetchFailsMarkingVisited(url) ==
    /\ urls_to_scrape' = Tail(urls_to_scrape)
    /\ scraped_urls' = scraped_urls \cup {url}
    /\ Issue(url)
    /\ failures' = Bump(failures, url)
    /\ UNCHANGED <<process_state, pc, base_domain, response, depth, enqueuers>>

\* httpx.get or raise_for_status raises: logged, continue
FetchFails(url) ==
    /\ urls_to_scrape' = Tail(urls_to_scrape)
    /\ Issue(url)
    /\ failures' = Bump(failures, url)
    /\ UNCHANGED <<process_state, pc, base_domain, scraped_urls, response, depth, enqueuers>>

\* the response is an attachment: save_extensions, continue
VisitAttachment(url, content_type) ==
    /\ Fetchable(url) /\ Classify(url, content_type) = "Attachment"
    /\ IF SaveAccepts(url)
       THEN LET file_path == StorePath(files, company_name, url) IN
                /\ files' = files \cup {file_path}
                /\ attachment_files' = Append(attachment_files, file_path)
       ELSE UNCHANGED <<files, attachment_files>>
    /\ scraped_urls' = scraped_urls \cup {url}
    /\ urls_to_scrape' = Tail(urls_to_scrape)
    /\ response' = content_type
    /\ Issue(url)
    /\ UNCHANGED <<markdown_files, reports, pc, base_domain, depth, failures, enqueuers>>

\* neither an attachment nor text/html: continue
VisitIgnored(url, content_type) ==
    /\ Fetchable(url) /\ Classify(url, content_type) = "Ignored"
    /\ scraped_urls' = scraped_urls \cup {url}
    /\ urls_to_scrape' = Tail(urls_to_scrape)
    /\ response' = content_type
    /\ Issue(url)
    /\ UNCHANGED <<process_state, pc, base_domain, depth, failures, enqueuers>>

\* text/html: generate_page_report, then the link loop and the extend
VisitPage(url, content_type, links) ==
    /\ Fetchable(url) /\ Classify(url, content_type) = "HTMLPage"
    /\ scraped_urls' = scraped_urls \cup {url}
    /\ generate_page_report(url)
    /\ LET new_urls == NewURLs(url, links, base_domain, scraped_urls', Tail(urls_to_scrape)) IN
           /\ \E order \in Perms(new_urls) :
                  urls_to_scrape' = Extend(Tail(urls_to_scrape), order)
           /\ depth' = Discover(depth, url, new_urls)
           /\ enqueuers' = Enqueued(enqueuers, url, new_urls)
    /\ response' = content_type
    /\ Issue(url)
    /\ UNCHANGED <<attachment_files, files, pc, base_domain, failures>>

\* open() or write() raises OSError inside save_extensions or
\* generate_page_report: nothing in scrape_entire_website catches it
StorageFails(url, content_type) ==
    /\ Fetchable(url) /\ Classify(url, content_type) # "Ignored"
    /\ scraped_urls' = scraped_urls \cup {url}
    /\ urls_to_scrape' = Tail(urls_to_scrape)
    /\ response' = content_type
    /\ Issue(url)
    /\ pc' = "aborted"
    /\ UNCHANGED <<process_state, base_domain, depth, failures, enqueuers>>

\* one iteration of the while loop
Iterate ==
    /\ pc = "running" /\ LoopGuard
    /\ LET url == Head(urls_to_scrape) IN
           IF Skipped(url)
           THEN /\ urls_to_scrape' = Tail(urls_to_scrape)
                /\ UNCHANGED <<process_state, pc, base_domain, scraped_urls,
                               response, attempted, depth, attempts, failures,
                               enqueuers>>
           ELSE \/ FetchFails(url)
                \/ \E content_type \in ContentTypes :
                       \/ VisitAttachment(url, content_type)
                       \/ VisitIgnored(url, content_type)
                       \/ \E links \in LinkSets : VisitPage(url, content_type, links)
                       \/ StorageFails(url, content_type)
    /\ UNCHANGED <<start_url, company_name, max_pages, conv_state, last_call,
                   runs, at_call>>

\* the loop condition is false: the function returns
LoopExit ==
    /\ pc = "running" /\ ~LoopGuard
    /\ pc' = "completed"
    /\ UNCHANGED <<process_state, start_url, company_name, max_pages, run_state,
                   history, conv_state, last_call>>

\* ------------------------------------------- convert_attachments_to_pdf

\* what subprocess.run can do when it is called
Outcomes == {"exit0", "exit1", "timeout", "oserror"}

\* file_extension in ["doc", "docx", "pptx", "ppt"]
Invokes(file_path) == lower(file_path.ext) \in {"doc", "docx", "pptx", "ppt"}

\* file_path.rsplit(".", 1)[0] + ".pdf"
pdf_file_path(file_path) == Path(file_path.company, file_path.stem, "pdf")

\* the body of the for loop without its try/except
ConvertOneNoCatch(file_path, outcome) ==
    IF Invokes(file_path)
    THEN CASE outcome = "exit0" -> [status |-> "converted", raised |-> FALSE]
           [] outcome = "exit1" -> [status |-> "failed", raised |-> FALSE]
           [] OTHER -> [status |-> "failed", raised |-> TRUE]
    ELSE IF lower(file_path.ext) = "pdf"
    THEN [status |-> "alreadyPdf", raised |-> FALSE]
    ELSE [status |-> "unsupported", raised |-> FALSE]

\* the body of the for loop, with its try/except: the logged outcome of one
\* file and whether an exception leaves the loop
ConvertOne(file_path, outcome) ==
    LET file_extension == lower(file_path.ext) IN
    IF Invokes(file_path)
    THEN CASE outcome = "exit0" -> [status |-> "converted", raised |-> FALSE]
           [] outcome = "exit1" -> [status |-> "failed", raised |-> FALSE]
           [] OTHER -> [status |-> "failed", raised |-> FALSE]
    ELSE IF file_extension = "pdf"
    THEN [status |-> "alreadyPdf", raised |-> FALSE]
    ELSE [status |-> "unsupported", raised |-> FALSE]

\* the iteration over the list itself, a path listed twice coming up twice
IteratedAsListed(list) ==
    [ file_path \in Range(list) |->
          Cardinality({ i \in 1..Len(list) : list[i] = file_path }) ]

\* set(attachment_files): every distinct path of the list comes up once
Iterated(list) == SetToBag(Range(list))

\* for file_path in set(attachment_files)
ConvertStart ==
    /\ pc # "running" /\ conv_pc # "running"
    /\ conv_pc' = "running"
    /\ conv_todo' = Iterated(attachment_files)
    /\ conv_results' = <<>>
    /\ UNCHANGED <<process_state, pc, start_url, company_name, max_pages,
                   run_state, history, last_call>>

\* one iteration of the for loop; a set is iterated in some order
ConvertStep(file_path, outcome) ==
    /\ conv_pc = "running" /\ BagIn(file_path, conv_todo)
    /\ LET res == ConvertOne(file_path, outcome) IN
           /\ conv_results' =
                  (file_path :> [outcome |-> outcome, status |-> res.status,
                                 runs |-> 1 + IF file_path \in DOMAIN conv_results
                                              THEN conv_results[file_path].runs
                                              ELSE 0])
                  @@ conv_results
           /\ conv_todo' = conv_todo (-) SetToBag({file_path})
           /\ conv_pc' = IF res.raised THEN "raised" ELSE "running"
           /\ files' = IF res.status = "converted"
                        THEN files \cup {pdf_file_path(file_path)}
                        ELSE files
    /\ UNCHANGED <<markdown_files, attachment_files, reports, pc, start_url,
                   company_name, max_pages, run_state, history, last_call>>

\* the set is exhausted: the function returns
ConvertFinish ==
    /\ conv_pc = "running" /\ conv_todo = EmptyBag
    /\ conv_pc' = "done"
    /\ UNCHANGED <<process_state, pc, start_url, company_name, max_pages,
                   run_state, history, conv_todo, conv_results, last_call>>

ConvertIterate ==
    \E file_path \in BagToSet(conv_todo) :
        \E outcome \in (IF Invokes(file_path) THEN Outcomes ELSE {"notrun"}) :
            ConvertStep(file_path, outcome)

Rejected ==
    \E s \in StartURLs, c \in CompanyNames, m \in MaxPagesArgs : CallInvalid(s, c, m)

Accepted ==
    \E s \in StartURLs, c \in CompanyNames, m \in MaxPagesArgs : CallStart(s, c, m)

Next ==
    \/ Rejected
    \/ Accepted
    \/ Iterate
    \/ LoopExit
    \/ ConvertStart
    \/ ConvertIterate
    \/ ConvertFinish

Spec == Init /\ [][Next]_vars

\* the loop of scrape_entire_website is sequential code whose every call
\* returns (httpx.get has a timeout of 5 s): a run that can iterate or leave
\* the loop does so
FairSpec == Spec /\ WF_vars(Iterate) /\ WF_vars(LoopExit)

\* ------------------------------------------------- the dispatch, by itself

\* URLs a response may come from: with and without a path, an extension, a
\* query
ClassifyURLs ==
    LET paths == { URL("http", ExampleHost, "", <<>>, "") } \cup
                 { URL("http", ExampleHost, dir, <<stem>>, ext) :
                       dir \in {"", "files"},
                       stem \in {"a", "view"},
                       ext \in {"", "pdf", "DOCX", "xlsx", "html"} }
        queries == { NoQuery, Query("download", "1", ""), Query("file", "a", "pdf") }
    IN  { WithQuery(url, query) : url \in paths, query \in queries }

\* lines 311-326 applied to one response
ClassifyCall ==
    /\ \E url \in ClassifyURLs, content_type \in ContentTypes :
           last_call' = [fn |-> "classify", url |-> url,
                         content_type |-> content_type,
                         result |-> Classify(url, content_type)]
    /\ UNCHANGED <<process_state, pc, start_url, company_name, max_pages,
                   run_state, history, conv_state>>

ClassifyNext == ClassifyCall

ClassifySpec == Init /\ [][ClassifyNext]_vars

\* ------------------------------------- generate_page_report, by itself

\* the pages reported: hosts of one to four labels, and URLs without a host
ReportURLs ==
    { URL("https", <<"www", "example", "co", "uk">>, "", <<>>, ""),
      URL("http", <<"example", "com">>, "", <<>>, ""),
      URL("http", <<"example", "com">>, "", <<"about">>, ""),
      URL("http", <<"localhost">>, "", <<>>, ""),
      Home, NoSchemeURL, NoHostURL, EmptyURL }

\* the blocks held by the report files
Blocks(rep) == UNION { { <<key, i>> : i \in 1..Len(rep[key]) } : key \in DOMAIN rep }

\* a call of generate_page_report: it returns, or open() raises OSError
ReportCall ==
    /\ Cardinality(Blocks(reports)) < MaxBlocks
    /\ \E url \in ReportURLs :
           \/ /\ generate_page_report(url)
              /\ last_call' = [fn |-> "generate_page_report", url |-> url,
                               result |-> "returned"]
           \/ /\ netloc(url) # <<>>
              /\ UNCHANGED <<reports, markdown_files>>
              /\ last_call' = [fn |-> "generate_page_report", url |-> url,
                               result |-> "raised"]
    /\ UNCHANGED <<attachment_files, files, pc, start_url, company_name, max_pages,
                   run_state, history, conv_state>>

ReportNext == ReportCall

ReportSpec == Init /\ [][ReportNext]_vars

\* -------------------------------- convert_attachments_to_pdf, by itself

\* extensions of listed paths: the four converted ones, one in upper case,
\* pdf, and extensions that are not converted
ListedExtensions == {"doc", "DOCX", "ppt", "pptx", "pdf", "xls", "xlsx", "txt"}

ListedPaths == { Path("acme", <<"a">>, ext) : ext \in ListedExtensions }

\* attachment_files is a list of the module: a path may be listed twice
AttachmentLists == UNION { [1..n -> ListedPaths] : n \in 0..MaxListed }

ConvertInit ==
    /\ attachment_files \in AttachmentLists
    /\ files = Range(attachment_files)
    /\ markdown_files = <<>> /\ reports = <<>>
    /\ pc = "idle"
    /\ start_url = EmptyURL /\ company_name = ""
    /\ max_pages = [isInt |-> TRUE, val |-> 0]
    /\ base_domain = <<>> /\ scraped_urls = {} /\ urls_to_scrape = <<>>
    /\ response = NoResponse
    /\ attempted = {} /\ depth = <<>>
    /\ attempts = <<>> /\ failures = <<>> /\ enqueuers = <<>>
    /\ runs = 0 /\ at_call = <<attachment_files, markdown_files>>
    /\ last_call = NoCall
    /\ conv_pc = "idle" /\ conv_todo = EmptyBag /\ conv_results = <<>>

ConvertNext ==
    \/ ConvertStart
    \/ ConvertIterate
    \/ ConvertFinish

ConvertSpec == ConvertInit /\ [][ConvertNext]_vars

\* ------------------------------------------ crawl runs, one after another

\* scrape_entire_website is called on the site again, by scrap_website or
\* another caller, once the earlier call has returned or raised and while no
\* conversion is executing
CallInSequence ==
    /\ pc \in {"idle", "completed", "aborted"} /\ conv_pc # "running"
    /\ runs < MaxRuns
    /\ \E v \in 1..MaxPagesInSequence :
           Enter(Home, "acme", [isInt |-> TRUE, val |-> v])

SequenceNext ==
    \/ CallInSequence
    \/ Iterate
    \/ LoopExit
    \/ ConvertStart
    \/ ConvertIterate
    \/ ConvertFinish

\* a process started on an empty temp directory
SequenceInit == Init /\ files = {} /\ reports = <<>>

SequenceSpec == SequenceInit /\ [][SequenceNext]_vars

\* ------------------------------------------------------------------ claims

\* a call has passed the argument checks (the run is or was Running)
Entered == pc \in {"running", "completed", "aborted"}

\* C1 as stated: in every run the number of URLs on which a GET was issued,
\* failed fetches included, never exceeds max_pages.
C1_FetchedWithinMaxPages ==
    Entered => Cardinality(attempted) <= max_pages.val

\* C1, amended: in every run the number of fetched URLs whose fetch succeeded
\* never exceeds max_pages; failed fetches are not counted against the budget.
C1_SucceededWithinMaxPages ==
    Entered => Cardinality({ u \in attempted : u \in scraped_urls }) <= max_pages.val

\* the budget is used up while some fetch of the run has failed
C1_Witness ==
    /\ pc = "running" /\ max_pages.val >= 2
    /\ Cardinality(scraped_urls) = max_pages.val
    /\ attempted \ scraped_urls # {}
    /\ urls_to_scrape # <<>>

\* C2: in every state of a run, every visited URL and every URL ever placed
\* in the frontier has the host of the start URL.
C2_DomainScoped ==
    Entered =>
        \A u \in scraped_urls \cup Range(urls_to_scrape) \cup DOMAIN depth :
            netloc(u) = netloc(start_url)

\* two pages visited, links of both enqueued
C2_Witness ==
    /\ Entered /\ Cardinality(scraped_urls) >= 2
    /\ \E u \in DOMAIN depth : depth[u] = 2
    /\ urls_to_scrape # <<>>

NoDuplicates(list) == \A i, j \in 1..Len(list) : i # j => list[i] # list[j]

\* the files of one company folder
Folder(existing, company) == { f \in existing : f.company = company }

\* C4: every save_extensions call that stores an attachment writes to a path
\* that did not exist immediately before the call and appends it to the
\* attachment-path list, whose entries stay pairwise distinct; when the
\* folder holds only name.ext, a save of base name name.ext goes to name_1.ext.
C4_NoOverwrite ==
    [][ attachment_files' # attachment_files =>
            LET url == Head(urls_to_scrape)
                file_path == attachment_files'[Len(attachment_files')]
            IN  /\ attachment_files' = Append(attachment_files, file_path)
                /\ file_path \notin files
                /\ file_path \in files'
                /\ files \subseteq files'
                /\ NoDuplicates(attachment_files')
                /\ file_path.company = company_name
                /\ Folder(files, company_name) = {Path(company_name, url.stem, url.ext)}
                       => file_path = Path(company_name, url.stem \o <<"_", "1">>, url.ext)
      ]_vars

\* the folder held only b.DOCX and a second b.DOCX was stored as b_1.DOCX
C4_Witness ==
    /\ attachment_files = << Path("acme", <<"b">>, "DOCX"),
                             Path("acme", <<"b", "_", "1">>, "DOCX") >>
    /\ files = Range(attachment_files)

\* C5: every generate_page_report call that returns appends exactly one
\* block, for the page visited, to the end of the one aggregate file of the
\* page's domain key; nothing else changes a report file, so earlier blocks
\* are never removed, truncated or reordered.
C5_ReportAppendCumulative ==
    [][ LET url == Head(urls_to_scrape)
            key == DomainKey(netloc(url))
            before == IF key \in DOMAIN reports THEN reports[key] ELSE <<>>
            reported == /\ pc = "running" /\ pc' = "running"
                        /\ scraped_urls' # scraped_urls
                        /\ ~IsAttachmentURL(url)
                        /\ ContainsTextHtml(lower(response'))
        IN  /\ reported => reports' # reports
            /\ reports' # reports =>
                  /\ reported
                  /\ DOMAIN reports' = DOMAIN reports \cup {key}
                  /\ reports'[key] = Append(before, url)
                  /\ \A k \in DOMAIN reports \ {key} : reports'[k] = reports[k]
      ]_vars

\* two pages of the run were reported after a block left by an earlier process
C5_Witness ==
    /\ "example" \in DOMAIN reports
    /\ Len(reports["example"]) = 3
    /\ reports["example"][2] # reports["example"][3]

\* the outcomes of subprocess.run that are a failed conversion
FailingOutcomes == {"exit1", "timeout", "oserror"}

\* C6: one invocation of convert_attachments_to_pdf never raises; whichever
\* attachments fail (non-zero exit code, timeout, exception), each is logged
\* as failed, every other attachment of the list gets its own outcome, and
\* the invocation ends having processed every path of the list.
C6_ConversionIsolated ==
    /\ conv_pc # "raised"
    /\ conv_pc = "done" => DOMAIN conv_results = Range(attachment_files)
    /\ conv_pc = "running" =>
           DOMAIN conv_results \cup BagToSet(conv_todo) = Range(attachment_files)
    /\ \A f \in DOMAIN conv_results :
           /\ conv_results[f].outcome \in FailingOutcomes
                  => conv_results[f].status = "failed"
           /\ conv_results[f].outcome = "exit0"
                  => conv_results[f].status = "converted"
           /\ conv_results[f].outcome = "notrun"
                  => conv_results[f].status \in {"alreadyPdf", "unsupported"}

\* an invocation ended with one conversion timed out and another converted
C6_Witness ==
    /\ conv_pc = "done"
    /\ \E f, g \in DOMAIN conv_results :
           /\ conv_results[f].outcome = "timeout"
           /\ conv_results[f].status = "failed"
           /\ conv_results[g].status = "converted"

\* the targets C7 names: an empty start URL, an empty company name, or a
\* max_pages that is not a positive integer
InvalidTarget(s, c, m) == s = EmptyURL \/ c = "" \/ ~m.isInt \/ m.val <= 0

\* C7: a call with an empty start URL, an empty company name or a max_pages
\* that is not a positive integer raises before the run is Running: the
\* frontier is not set up, no GET is issued, no file is written, both path
\* lists are unchanged, and the rejected run never starts later.
C7_InvalidArgumentsRejected ==
    [][ /\ (pc = "idle" /\ pc' # "idle"
             /\ InvalidTarget(start_url', company_name', max_pages'))
            => /\ pc' = "invalid"
               /\ urls_to_scrape' = <<>> /\ attempted' = {}
               /\ UNCHANGED process_state
        /\ pc = "invalid"
            => /\ pc' = "invalid"
               /\ urls_to_scrape' = <<>> /\ attempted' = {}
               /\ UNCHANGED process_state
      ]_vars

\* a call with max_pages = 0 was rejected and a conversion has run since
C7_Witness ==
    /\ pc = "invalid" /\ start_url = Home /\ company_name = "acme"
    /\ max_pages.isInt /\ max_pages.val = 0
    /\ conv_pc = "done"

\* a start URL that lacks its scheme or its host
Malformed(url) == url # EmptyURL /\ (url.scheme = "" \/ netloc(url) = <<>>)

\* C8 as stated: a call whose non-empty start URL lacks a scheme or a host is
\* rejected; the frontier is never initialized and no GET is tried on it.
C8_MalformedStartRejected ==
    (pc # "idle" /\ Malformed(start_url))
        => /\ pc = "invalid"
           /\ urls_to_scrape = <<>>
           /\ start_url \notin attempted

\* C9 as stated: a write failure in save_extensions or generate_page_report
\* does not abort the crawl; the run ends only by its normal termination
\* condition, the frontier empty or max_pages URLs visited.
C9_WriteFailureRecovered ==
    pc \in {"completed", "aborted"}
        => /\ pc = "completed"
           /\ urls_to_scrape = <<>> \/ Cardinality(scraped_urls) >= max_pages.val

\* the class of a visited URL, as the dispatch of C10 names it
C10_Class(url, content_type) ==
    IF url.ext # "" /\ lower(url.ext) \in attachment_extensions THEN "Attachment"
    ELSE IF ContainsTextHtml(lower(content_type)) THEN "HTMLPage"
    ELSE "Ignored"

IsPrefix(s, t) == Len(s) <= Len(t) /\ SubSeq(t, 1, Len(s)) = s

C11_EventuallyCompleted == (pc = "running") ~> (pc = "completed")

\* every run leaves the loop: it is completed, or aborted by a failed write
LeavesRunning == (pc = "running") ~> (pc \in {"completed", "aborted"})

\* C12: in every reachable state the frontier holds no URL twice and no URL
\* of the visited set, so the URL at its front, the next one popped, is never
\* already visited.
C12_FrontierFresh ==
    /\ NoDuplicates(urls_to_scrape)
    /\ \A i \in 1..Len(urls_to_scrape) : urls_to_scrape[i] \notin scraped_urls
    /\ (pc = "running" /\ urls_to_scrape # <<>>) => Head(urls_to_scrape) \notin scraped_urls

\* two pages were visited and a URL whose fetch failed is queued again, next
\* to another queued URL
C12_Witness ==
    /\ pc = "running" /\ Cardinality(scraped_urls) >= 2
    /\ Len(urls_to_scrape) >= 2
    /\ \E i \in 1..Len(urls_to_scrape) : urls_to_scrape[i] \in attempted

\* C13: a step in which the GET raises is not fatal and changes only the
\* frontier: the failed URL leaves its front and is not marked visited; the
\* visited set, both path lists and every file are unchanged, and the run is
\* still Running.
C13_FetchErrorFrame ==
    [][ failures' # failures =>
            LET url == Head(urls_to_scrape) IN
                /\ pc = "running" /\ pc' = "running"
                /\ Count(failures', url) = Count(failures, url) + 1
                /\ urls_to_scrape' = Tail(urls_to_scrape)
                /\ scraped_urls' = scraped_urls
                /\ url \notin scraped_urls'
                /\ attachment_files' = attachment_files
                /\ markdown_files' = markdown_files
                /\ files' = files
                /\ reports' = reports
      ]_vars

\* a GET failed after a page was reported and an attachment stored, and the
\* loop went on to visit another URL
C13_Witness ==
    /\ Entered /\ markdown_files # <<>> /\ attachment_files # <<>>
    /\ \E u \in DOMAIN failures : u \notin scraped_urls
    /\ \E u \in DOMAIN failures, v \in scraped_urls : depth[v] > depth[u]

\* C14: a GET is issued only from a state whose visited set holds fewer than
\* max_pages URLs; the visited set never holds more than max_pages URLs; and
\* a run whose visited set has reached max_pages does nothing but return,
\* whatever is left in the frontier.
C14_BudgetGuardsFetch ==
    [][ /\ attempts' # attempts =>
               /\ pc = "running"
               /\ Cardinality(scraped_urls) < max_pages.val
        /\ pc' \in {"running", "completed", "aborted"} =>
               Cardinality(scraped_urls') <= max_pages'.val
        /\ (pc = "running" /\ Cardinality(scraped_urls) >= max_pages.val) =>
               /\ pc' = "completed"
               /\ UNCHANGED <<process_state, run_state, history>>
      ]_vars

\* the run returned with its budget of two or more pages used up and URLs
\* still queued
C14_Witness ==
    /\ pc = "completed" /\ max_pages.val >= 2
    /\ Cardinality(scraped_urls) = max_pages.val
    /\ Len(urls_to_scrape) >= 2

\* C15 as stated: for every URL and Content-Type the dispatch gives
\* Attachment when the extension of the URL's path, case-insensitively, is
\* one of the seven attachment extensions, otherwise HTMLPage when the
\* Content-Type contains text/html, otherwise Ignored.
C15_ClassifiedByPathExtension ==
    last_call.fn = "classify" =>
        last_call.result = C10_Class(last_call.url, last_call.content_type)

\* C16: generate_page_report files the block of a page under the key taken
\* from the page's host split on dots, the second-to-last label when the
\* host has more than two labels and the first label otherwise
\* (www.example.co.uk gives co, example.com gives example); called with a
\* URL whose host is empty it writes no file and leaves the report-path list
\* unchanged.
C16_DomainKeyed ==
    [][ (last_call'.fn = "generate_page_report" /\ last_call'.result = "returned") =>
            LET url == last_call'.url
                host == netloc(url)
                key == IF Len(host) > 2 THEN host[Len(host) - 1] ELSE host[1]
                before == IF key \in DOMAIN reports THEN reports[key] ELSE <<>>
            IN  IF host = <<>>
                THEN UNCHANGED process_state
                ELSE /\ reports' = [k \in DOMAIN reports \cup {key} |->
                                       IF k = key THEN Append(before, url) ELSE reports[k]]
                     /\ markdown_files' \in {markdown_files, Append(markdown_files, key)}
                     /\ key \in Range(markdown_files')
                     /\ host = <<"www", "example", "co", "uk">> => key = "co"
                     /\ host = <<"example", "com">> => key = "example"
      ]_vars

\* pages of www.example.co.uk and of example.com were reported under co and
\* example, and the last call, with a URL that has no host, did nothing
C16_Witness ==
    /\ last_call.fn = "generate_page_report" /\ last_call.result = "returned"
    /\ netloc(last_call.url) = <<>>
    /\ markdown_files = <<"co", "example">>
    /\ Len(reports["co"]) = 1
    /\ reports["example"][Len(reports["example"])].host = <<"example", "com">>

\* C17: in one invocation of convert_attachments_to_pdf every distinct path
\* of the list comes up once, however often it is listed, and what happens
\* to it depends on its extension alone, upper or lower case: doc, docx, ppt
\* and pptx run the converter, converted on exit code 0 and failed
\* otherwise; pdf is already PDF and any other extension, xls and xlsx
\* included, is unsupported, both without running the converter.
C17_ConvertedByExtension ==
    /\ conv_pc = "done" => DOMAIN conv_results = Range(attachment_files)
    /\ \A f \in DOMAIN conv_results :
           LET file_extension == lower(f.ext)
               result == conv_results[f]
           IN  /\ f \in Range(attachment_files)
               /\ result.runs = 1
               /\ IF file_extension \in {"doc", "docx", "ppt", "pptx"}
                  THEN /\ result.outcome \in {"exit0", "exit1", "timeout", "oserror"}
                       /\ result.status = IF result.outcome = "exit0"
                                          THEN "converted" ELSE "failed"
                  ELSE /\ result.outcome = "notrun"
                       /\ result.status = IF file_extension = "pdf"
                                          THEN "alreadyPdf" ELSE "unsupported"

\* a .doc path listed twice came up once and was converted, and the .xls
\* path listed between its two entries was skipped as unsupported
C17_Witness ==
    /\ conv_pc = "done"
    /\ attachment_files = << Path("acme", <<"a">>, "doc"), Path("acme", <<"a">>, "xls"),
                             Path("acme", <<"a">>, "doc") >>
    /\ conv_results[Path("acme", <<"a">>, "doc")].runs = 1
    /\ conv_results[Path("acme", <<"a">>, "doc")].status = "converted"
    /\ conv_results[Path("acme", <<"a">>, "xls")].status = "unsupported"

\* the pages of the run that have put url in the frontier
C18_Parents(by, url) == IF url \in DOMAIN by THEN by[url] ELSE {}

\* C18: URLs enter the frontier of a running crawl only in the step that
\* successfully fetches and reports an HTML page, from that page's anchors,
\* each at most once per page and only while neither visited nor queued; a
\* URL whose fetch failed re-enters in no other way. Hence the GETs issued on
\* a URL, plus one if it is queued, never exceed the number of fetched pages
\* that enqueued it, plus one for the start URL: at most one more than the
\* fetched pages that link to it.
C18_ReentryBounded ==
    [][ /\ (pc = "running" /\ urls_to_scrape' # urls_to_scrape) =>
               LET url == Head(urls_to_scrape)
                   rest == Tail(urls_to_scrape)
                   added == SubSeq(urls_to_scrape', Len(rest) + 1, Len(urls_to_scrape'))
               IN  /\ IsPrefix(rest, urls_to_scrape')
                   /\ added # <<>> =>
                          /\ url \notin scraped_urls /\ url \in scraped_urls'
                          /\ reports' # reports
                          /\ NoDuplicates(added)
                   /\ \A i \in 1..Len(added) :
                          /\ added[i] \notin scraped_urls'
                          /\ added[i] \notin Range(rest)
                          /\ url \notin C18_Parents(enqueuers, added[i])
                          /\ url \in C18_Parents(enqueuers', added[i])
        /\ \A u \in DOMAIN attempts' \cup Range(urls_to_scrape') :
               LET parents == C18_Parents(enqueuers', u)
                   queued == Cardinality({ i \in 1..Len(urls_to_scrape') :
                                               urls_to_scrape'[i] = u })
               IN  /\ parents \subseteq scraped_urls'
                   /\ Count(attempts', u) + queued
                          <= Cardinality(parents) + IF u = start_url' THEN 1 ELSE 0
                   /\ Count(attempts', u) <= 1 + Cardinality(parents)
      ]_vars

\* a URL whose first fetch failed was linked by a second page, queued again
\* and fetched a second time
C18_Witness ==
    \E u \in DOMAIN attempts :
        /\ attempts[u] = 2 /\ Count(failures, u) = 1
        /\ u \in scraped_urls
        /\ Cardinality(C18_Parents(enqueuers, u)) = 2

\* C19: the report-path list never holds the same aggregate path twice, and
\* an aggregate file that has just received a block is listed exactly once;
\* the list changes only by a path being appended.
C19_ReportListedOnce ==
    [][ /\ NoDuplicates(markdown_files')
        /\ IsPrefix(markdown_files, markdown_files')
        /\ \A key \in DOMAIN reports' :
               (key \notin DOMAIN reports \/ reports'[key] # reports[key]) =>
                   Cardinality({ i \in 1..Len(markdown_files') :
                                     markdown_files'[i] = key }) = 1
      ]_vars

\* example.md received two blocks and co.md one: each is listed once
C19_Witness ==
    /\ markdown_files = <<"example", "co">>
    /\ Len(reports["example"]) = 2
    /\ reports["example"][1].host = <<"example", "com">>
    /\ Len(reports["co"]) = 1

\* C20: every page a crawl run reports has the host of the start URL, so
\* the run appends its blocks to one aggregate file, the one of the start
\* URL's domain key, and adds at most that one path to the report-path list.
C20_OneAggregatePerRun ==
    [][ pc = "running" =>
            LET host == netloc(start_url)
                key == IF Len(host) > 2 THEN host[Len(host) - 1] ELSE host[1]
            IN  IF host = <<>>
                THEN UNCHANGED <<reports, markdown_files>>
                ELSE /\ \A k \in DOMAIN reports' :
                            (k \notin DOMAIN reports \/ reports'[k] # reports[k]) =>
                                /\ k = key
                                /\ netloc(reports'[k][Len(reports'[k])]) = host
                     /\ DOMAIN reports \subseteq DOMAIN reports'
                     /\ markdown_files' \in {markdown_files, Append(markdown_files, key)}
                     /\ Len(markdown_files') <= 1
      ]_vars

\* a run reported three pages, all in example.md, the only path listed
C20_Witness ==
    /\ pc = "completed" /\ Cardinality(scraped_urls) = 3
    /\ markdown_files = <<"example">>
    /\ DOMAIN reports = {"example"}
    /\ Len(reports["example"]) >= 3
    /\ \A i \in 1..Len(reports["example"]) :
           netloc(reports["example"][i]) = netloc(start_url)

\* C21: the two module-level path lists only grow, by entries appended at
\* their end: no step of a crawl run, of a call or of a conversion removes,
\* clears or rewrites an entry. So the entries listed when a run was called
\* are still listed, in place, during and after the run, and a conversion
\* started at any time iterates over every listed path, those of earlier
\* runs included, and ends having processed them all.
C21_ListsAppendOnly ==
    [][ /\ IsPrefix(attachment_files, attachment_files')
        /\ IsPrefix(markdown_files, markdown_files')
        /\ IsPrefix(at_call'[1], attachment_files')
        /\ IsPrefix(at_call'[2], markdown_files')
        /\ (conv_pc # "running" /\ conv_pc' = "running") =>
               BagToSet(conv_todo') = Range(attachment_files)
        /\ conv_pc' = "done" =>
               /\ Range(at_call'[1]) \subseteq DOMAIN conv_results'
               /\ Range(attachment_files') = DOMAIN conv_results'
      ]_vars

\* the second of two runs has returned; each run stored an attachment, both
\* paths and the one report path are listed, and the conversion invoked
\* afterwards processed the first run's attachment as well as the second's
C21_Witness ==
    /\ runs = 2 /\ pc = "completed" /\ conv_pc = "done"
    /\ Len(at_call[1]) >= 1
    /\ Len(attachment_files) > Len(at_call[1])
    /\ IsPrefix(at_call[1], attachment_files)
    /\ at_call[2] = <<"example">> /\ markdown_files = <<"example">>
    /\ \A i \in 1..Len(attachment_files) :
           attachment_files[i] \in DOMAIN conv_results

====
